---- MODULE Spec2Model ----
(***************************************************************************)
(* Model of src/lib/archiveCache.js: an LRU-limited, TTL-expiring cache of *)
(* downloaded archive buffers.  The module keeps a Map (_archiveStore) and *)
(* an array of keys (_archiveOrder); getArchive, setArchive, deleteArchive *)
(* and getArchiveCacheStats operate on both, and ARCHIVE_CACHE exports     *)
(* them as get, set, delete, has and stats.                                *)
(*                                                                         *)
(* Time is counted in abstract clock units; ARCHIVE_CACHE_TTL and the      *)
(* capacity are scaled down so that expiry and eviction are reachable.     *)
(***************************************************************************)
EXTENDS Integers, Sequences, FiniteSets, TLC

\* ---------------------------------------------------------------- bounds
\* Largest capacity explored; ARCHIVE_CACHE_MAX_SIZE ranges over 1..MaxCapacity.
MaxCapacity == 2
\* Last value the clock (Date.now()) takes.
MaxTime == 2
\* Time-to-live in clock units (30 * 60 * 1000 ms in the source).
ARCHIVE_CACHE_TTL == 1

\* One key more than the largest capacity, so that a full cache can always
\* be offered a key it does not hold.
Keys == 1..(MaxCapacity + 1)
\* The archive buffers a caller passes.  setArchive never looks into a
\* value, it only spreads its fields, so two distinguishable buffers are
\* enough to tell an overwrite from the entry it replaces.
Buffers == {0, 1}
\* A timestamp field supplied by the caller inside the value (overridden by
\* the spread in setArchive).
CallerTimestamp == 0 - 1

\* The values a caller passes to set: objects with a buffer field; the one
\* with buffer 0 also has a timestamp field of its own.
Values ==
  { IF b = 0 THEN [buffer |-> b, timestamp |-> CallerTimestamp]
             ELSE [buffer |-> b] : b \in Buffers }

\* JavaScript null, as returned by getArchive.
Null == [null |-> TRUE]

VARIABLES
  _archiveStore,          \* Map: key -> item (value's fields plus timestamp)
  _archiveOrder,          \* Array of keys, front = oldest
  ARCHIVE_CACHE_MAX_SIZE, \* the capacity, fixed at construction
  now,                    \* the value Date.now() returns
  pc,                     \* "idle", or "evict" while setArchive is running
  call,                   \* the call in progress or last completed, with
                          \* its arguments, locals and return value
  written,                \* history: for each key now in the store, the
                          \* value and time of the set that wrote it
  history,                \* history: the calls completed since construction,
                          \* kept while they follow one of the Scripts
  touched                 \* history: the keys now in the store, ordered by
                          \* their most recent set or entry-returning get

vars == <<_archiveStore, _archiveOrder, ARCHIVE_CACHE_MAX_SIZE, now, pc, call,
          written, history, touched>>

\* ------------------------------------------------- Map and Array helpers
\* Map.prototype.has
MapHas(store, key) == key \in DOMAIN store

\* Map.prototype.delete
MapDelete(store, key) == [k \in (DOMAIN store) \ {key} |-> store[k]]

\* Map.prototype.set
MapSet(store, key, item) ==
  [k \in (DOMAIN store) \cup {key} |-> IF k = key THEN item ELSE store[k]]

\* Array.prototype.indexOf: 0-based index of the first occurrence, -1 if none.
IndexOf(arr, key) ==
  IF \E i \in 1..Len(arr) : arr[i] = key
  THEN (CHOOSE i \in 1..Len(arr) :
          /\ arr[i] = key
          /\ \A j \in 1..(i - 1) : arr[j] # key) - 1
  ELSE 0 - 1

\* Array.prototype.splice(idx, 1): the array without the element at the
\* 0-based index idx.
Splice(arr, idx) ==
  [i \in 1..(Len(arr) - 1) |-> IF i <= idx THEN arr[i] ELSE arr[i + 1]]

\* Variant: unshift, the key is added at the front.
PushFront(arr, key) == <<key>> \o arr

\* Array.prototype.push
Push(arr, key) == Append(arr, key)

\* Variant: the key is looked up but never spliced out.
RemoveFromOrderKept(arr, key) == arr

\* const idx = arr.indexOf(key); if (idx > -1) arr.splice(idx, 1);
RemoveFromOrder(arr, key) ==
  LET idx == IndexOf(arr, key)
  IN  IF idx > 0 - 1 THEN Splice(arr, idx) ELSE arr

\* Variant: a read leaves the order as it is.
MoveToEndSkipped(arr, key) == arr

\* Variant: a read moves the key to the front (unshift) of the order.
MoveToFront(arr, key) ==
  LET idx == IndexOf(arr, key)
  IN  IF idx > 0 - 1 THEN <<key>> \o Splice(arr, idx) ELSE arr

\* getArchive lines 27-31: move key to the end of the order.
MoveToEnd(arr, key) ==
  LET idx == IndexOf(arr, key)
  IN  IF idx > 0 - 1 THEN Push(Splice(arr, idx), key) ELSE arr

\* Variant: an entry expires one clock unit late.
ExpiredLate(item, t) == t - item.timestamp > ARCHIVE_CACHE_TTL + 1

\* Variant: an entry expires as soon as its age reaches the TTL.
ExpiredAtTtl(item, t) == t - item.timestamp >= ARCHIVE_CACHE_TTL

\* getArchive line 21: the TTL check.
Expired(item, t) == t - item.timestamp > ARCHIVE_CACHE_TTL

\* Variant: the loop evicts only once the array is over capacity.
AtCapacityOver(arr, maxSize) == Len(arr) > maxSize

\* setArchive line 47: the eviction loop's condition.
AtCapacity(arr, maxSize) == Len(arr) >= maxSize

\* Variant: an overwrite keeps the timestamp of the entry it replaces.
NewItemKeepStamp(value, t) ==
  [f \in (DOMAIN value) \cup {"timestamp"} |->
     IF f = "timestamp"
     THEN IF call.key \in DOMAIN _archiveStore
          THEN _archiveStore[call.key].timestamp
          ELSE t
     ELSE value[f]]

\* Variant: the value's fields are not spread into the item.
NewItemNoSpread(value, t) == [timestamp |-> t]

\* Variant: { timestamp: Date.now(), ...value }, a timestamp field of the
\* value wins over the clock.
NewItemCallerWins(value, t) ==
  [f \in (DOMAIN value) \cup {"timestamp"} |->
     IF f \in DOMAIN value THEN value[f] ELSE t]

\* setArchive line 53: { ...value, timestamp: Date.now() }
NewItem(value, t) ==
  [f \in (DOMAIN value) \cup {"timestamp"} |->
     IF f = "timestamp" THEN t ELSE value[f]]

\* getArchiveCacheStats lines 70-74.
getArchiveCacheStats ==
  [size    |-> Cardinality(DOMAIN _archiveStore),
   maxSize |-> ARCHIVE_CACHE_MAX_SIZE,
   keys    |-> _archiveOrder]

\* The cache as a call finds it: recorded in the call so that the state
\* after the call can be compared with the state before it.
Before ==
  [store |-> _archiveStore, order |-> _archiveOrder, now |-> now,
   written |-> written, touched |-> touched]

\* The history of writes, cut down to the keys the store still holds.
Surviving(w, store) == [k \in (DOMAIN w) \cap (DOMAIN store) |-> w[k]]

\* The touch order, cut down to the keys the store still holds.
StillHeld(t, store) ==
  LET Held(k) == k \in DOMAIN store
  IN  SelectSeq(t, Held)

\* The touch order after key has been set or read: key is the latest.
Touch(t, key) ==
  LET Other(k) == k # key
  IN  Append(SelectSeq(t, Other), key)

\* The call sequences of the scenarios that are followed from construction,
\* as <<operation, key>> pairs:
\*   filling a cache of capacity c with keys 1..c and setting one key more;
\*   set 1, set 2, get 1, set 3;
\*   set 1, set 1, get 1.
FillScript(c) == [i \in 1..(c + 1) |-> <<"set", i>>]
RefreshScript == << <<"set", 1>>, <<"set", 2>>, <<"get", 1>>, <<"set", 3>> >>
OverwriteScript == << <<"set", 1>>, <<"set", 1>>, <<"get", 1>> >>
Scripts ==
  { FillScript(c) : c \in 1..MaxCapacity } \cup {RefreshScript, OverwriteScript}

\* The history once the calls have left every script.
OffScript == << [op |-> "off", key |-> 0, at |-> 0, val |-> Null] >>
Shape(h) == [i \in 1..Len(h) |-> <<h[i].op, h[i].key>>]
IsPrefix(s, t) == Len(s) <= Len(t) /\ \A i \in 1..Len(s) : s[i] = t[i]

\* The history after a completed call: op on key at time t, with the value
\* passed (set) or returned (get).
Record(h, op, key, t, val) ==
  LET h2 == Append(h, [op |-> op, key |-> key, at |-> t, val |-> val])
  IN  IF h # OffScript /\ \E sc \in Scripts : IsPrefix(Shape(h2), sc)
      THEN h2
      ELSE OffScript

\* ------------------------------------------------------------ operations
Init ==
  /\ _archiveStore = [k \in {} |-> Null]
  /\ _archiveOrder = <<>>
  /\ ARCHIVE_CACHE_MAX_SIZE \in 1..MaxCapacity
  /\ now = 0
  /\ pc = "idle"
  /\ call = [op |-> "init"]
  /\ written = [k \in {} |-> Null]
  /\ history = <<>>
  /\ touched = <<>>

\* The clock advances (at any moment, also while setArchive runs).
Tick ==
  /\ now < MaxTime
  /\ now' = now + 1
  /\ UNCHANGED <<_archiveStore, _archiveOrder, ARCHIVE_CACHE_MAX_SIZE, pc, call,
                 written, history, touched>>

\* Variant: the key is deleted from the store only.
deleteArchiveStoreOnly(key) ==
  /\ _archiveStore' = MapDelete(_archiveStore, key)
  /\ UNCHANGED _archiveOrder

\* Variant: splice(idx, 1) without the idx > -1 test; for an absent key
\* splice(-1, 1) removes the last element.
deleteArchiveUnguarded(key) ==
  /\ _archiveStore' = MapDelete(_archiveStore, key)
  /\ _archiveOrder' =
       IF IndexOf(_archiveOrder, key) > 0 - 1
       THEN Splice(_archiveOrder, IndexOf(_archiveOrder, key))
       ELSE SubSeq(_archiveOrder, 1, Len(_archiveOrder) - 1)

\* deleteArchive(key): its effect on the store and the order.
deleteArchive(key) ==
  /\ _archiveStore' = MapDelete(_archiveStore, key)
  /\ _archiveOrder' = RemoveFromOrder(_archiveOrder, key)

\* Variant: a sliding TTL, a get that returns the entry restamps it.
GetSliding(key) ==
  /\ pc = "idle"
  /\ IF ~MapHas(_archiveStore, key)
     THEN /\ call' = [op |-> "get", key |-> key, ret |-> Null, before |-> Before]
          /\ UNCHANGED <<_archiveStore, _archiveOrder>>
     ELSE IF Expired(_archiveStore[key], now)
     THEN /\ deleteArchive(key)
          /\ call' = [op |-> "get", key |-> key, ret |-> Null, before |-> Before]
     ELSE /\ _archiveOrder' = MoveToEnd(_archiveOrder, key)
          /\ _archiveStore' =
               [_archiveStore EXCEPT ![key].timestamp = now]
          /\ call' = [op |-> "get", key |-> key, ret |-> _archiveStore'[key],
                      before |-> Before]
  /\ written' = Surviving(written, _archiveStore')
  /\ history' = Record(history, "get", key, now, call'.ret)
  /\ touched' = IF call'.ret # Null
                THEN Touch(touched, key)
                ELSE StillHeld(touched, _archiveStore')
  /\ UNCHANGED <<ARCHIVE_CACHE_MAX_SIZE, now, pc>>

\* ARCHIVE_CACHE.get = getArchive
Get(key) ==
  /\ pc = "idle"
  /\ IF ~MapHas(_archiveStore, key)
     THEN /\ call' = [op |-> "get", key |-> key, ret |-> Null, before |-> Before]
          /\ UNCHANGED <<_archiveStore, _archiveOrder>>
     ELSE IF Expired(_archiveStore[key], now)
     THEN /\ deleteArchive(key)
          /\ call' = [op |-> "get", key |-> key, ret |-> Null, before |-> Before]
     ELSE /\ _archiveOrder' = MoveToEnd(_archiveOrder, key)
          /\ call' = [op |-> "get", key |-> key, ret |-> _archiveStore[key],
                      before |-> Before]
          /\ UNCHANGED _archiveStore
  /\ written' = Surviving(written, _archiveStore')
  /\ history' = Record(history, "get", key, now, call'.ret)
  /\ touched' = IF call'.ret # Null
                THEN Touch(touched, key)
                ELSE StillHeld(touched, _archiveStore')
  /\ UNCHANGED <<ARCHIVE_CACHE_MAX_SIZE, now, pc>>

\* Variant: an existing key is not removed from the order on entry.
SetBeginNoRemoval(key, value) ==
  /\ pc = "idle"
  /\ pc' = "evict"
  /\ call' = [op |-> "set", key |-> key, value |-> value,
              had |-> MapHas(_archiveStore, key), evicted |-> <<>>,
              at |-> 0 - 1,
              before |-> Before]
  /\ UNCHANGED <<_archiveStore, _archiveOrder, ARCHIVE_CACHE_MAX_SIZE, now,
                 written, history, touched>>

\* ARCHIVE_CACHE.set = setArchive, lines 40-44: entry, and removal of an
\* existing key from the order.
SetBegin(key, value) ==
  /\ pc = "idle"
  /\ _archiveOrder' = IF MapHas(_archiveStore, key)
                      THEN RemoveFromOrder(_archiveOrder, key)
                      ELSE _archiveOrder
  /\ pc' = "evict"
  /\ call' = [op |-> "set", key |-> key, value |-> value,
              had |-> MapHas(_archiveStore, key), evicted |-> <<>>,
              at |-> 0 - 1,
              before |-> Before]
  /\ UNCHANGED <<_archiveStore, ARCHIVE_CACHE_MAX_SIZE, now, written, history,
                 touched>>

\* Variant: the loop evicts the newest key (pop) instead of the oldest.
SetEvictNewest ==
  /\ pc = "evict"
  /\ AtCapacity(_archiveOrder, ARCHIVE_CACHE_MAX_SIZE)
  /\ IF _archiveOrder = <<>>
     THEN UNCHANGED <<_archiveStore, _archiveOrder, call>>
     ELSE /\ _archiveOrder' = SubSeq(_archiveOrder, 1, Len(_archiveOrder) - 1)
          /\ _archiveStore' =
               MapDelete(_archiveStore, _archiveOrder[Len(_archiveOrder)])
          /\ call' = [call EXCEPT
                        !.evicted = Append(@, _archiveOrder[Len(_archiveOrder)])]
  /\ written' = Surviving(written, _archiveStore')
  /\ touched' = StillHeld(touched, _archiveStore')
  /\ UNCHANGED <<ARCHIVE_CACHE_MAX_SIZE, now, pc, history>>

\* setArchive lines 47-50: one iteration of the eviction loop.
\* shift() on an empty array returns undefined and leaves it empty;
\* Map.delete of a missing key does nothing.
SetEvict ==
  /\ pc = "evict"
  /\ AtCapacity(_archiveOrder, ARCHIVE_CACHE_MAX_SIZE)
  /\ IF _archiveOrder = <<>>
     THEN UNCHANGED <<_archiveStore, _archiveOrder, call>>
     ELSE /\ _archiveOrder' = Tail(_archiveOrder)
          /\ _archiveStore' = MapDelete(_archiveStore, Head(_archiveOrder))
          /\ call' = [call EXCEPT !.evicted = Append(@, Head(_archiveOrder))]
  /\ written' = Surviving(written, _archiveStore')
  /\ touched' = StillHeld(touched, _archiveStore')
  /\ UNCHANGED <<ARCHIVE_CACHE_MAX_SIZE, now, pc, history>>

\* Variant: active expiry, the set sweeps out every expired entry before
\* it stores the item.
SetInsertSweeping ==
  /\ pc = "evict"
  /\ ~AtCapacity(_archiveOrder, ARCHIVE_CACHE_MAX_SIZE)
  /\ LET live == { k \in DOMAIN _archiveStore :
                     ~Expired(_archiveStore[k], now) }
         IsLive(k) == k \in live
     IN  /\ _archiveStore' =
              MapSet([k \in live |-> _archiveStore[k]], call.key,
                     NewItem(call.value, now))
         /\ _archiveOrder' =
              Push(RemoveFromOrder(SelectSeq(_archiveOrder, IsLive), call.key),
                   call.key)
  /\ pc' = "idle"
  /\ call' = [call EXCEPT !.at = now]
  /\ written' =
       MapSet(Surviving(written, _archiveStore'), call.key,
              [value |-> call.value, time |-> now])
  /\ history' = Record(history, "set", call.key, now, call.value)
  /\ touched' = Touch(StillHeld(touched, _archiveStore'), call.key)
  /\ UNCHANGED <<ARCHIVE_CACHE_MAX_SIZE, now>>

\* setArchive lines 52-54: loop exit, store the item, push the key, return.
SetInsert ==
  /\ pc = "evict"
  /\ ~AtCapacity(_archiveOrder, ARCHIVE_CACHE_MAX_SIZE)
  /\ _archiveStore' = MapSet(_archiveStore, call.key, NewItem(call.value, now))
  /\ _archiveOrder' = Push(_archiveOrder, call.key)
  /\ pc' = "idle"
  /\ call' = [call EXCEPT !.at = now]
  /\ written' =
       MapSet(Surviving(written, _archiveStore), call.key,
              [value |-> call.value, time |-> now])
  /\ history' = Record(history, "set", call.key, now, call.value)
  /\ touched' = Touch(StillHeld(touched, _archiveStore'), call.key)
  /\ UNCHANGED <<ARCHIVE_CACHE_MAX_SIZE, now>>

\* ARCHIVE_CACHE.delete = deleteArchive
Delete(key) ==
  /\ pc = "idle"
  /\ deleteArchive(key)
  /\ call' = [op |-> "delete", key |-> key, before |-> Before]
  /\ written' = Surviving(written, _archiveStore')
  /\ history' = Record(history, "delete", key, now, Null)
  /\ touched' = StillHeld(touched, _archiveStore')
  /\ UNCHANGED <<ARCHIVE_CACHE_MAX_SIZE, now, pc>>

\* Variant: has answers false for an entry older than the TTL.
HasFresh(key) ==
  /\ pc = "idle"
  /\ call' = [op |-> "has", key |-> key,
              ret |-> /\ MapHas(_archiveStore, key)
                      /\ ~Expired(_archiveStore[key], now),
              before |-> Before]
  /\ UNCHANGED <<_archiveStore, _archiveOrder, ARCHIVE_CACHE_MAX_SIZE, now, pc,
                 written, history, touched>>

\* ARCHIVE_CACHE.has
Has(key) ==
  /\ pc = "idle"
  /\ call' = [op |-> "has", key |-> key, ret |-> MapHas(_archiveStore, key),
              before |-> Before]
  /\ UNCHANGED <<_archiveStore, _archiveOrder, ARCHIVE_CACHE_MAX_SIZE, now, pc,
                 written, history, touched>>

\* Variant: keys is _archiveOrder.reverse(), which reverses the array in
\* place and returns it.
StatsReversing ==
  /\ pc = "idle"
  /\ _archiveOrder' =
       [i \in 1..Len(_archiveOrder) |->
          _archiveOrder[Len(_archiveOrder) + 1 - i]]
  /\ call' = [op |-> "stats",
              ret |-> [getArchiveCacheStats EXCEPT !.keys = _archiveOrder'],
              before |-> Before]
  /\ UNCHANGED <<_archiveStore, ARCHIVE_CACHE_MAX_SIZE, now, pc,
                 written, history, touched>>

\* ARCHIVE_CACHE.stats = getArchiveCacheStats
Stats ==
  /\ pc = "idle"
  /\ call' = [op |-> "stats", ret |-> getArchiveCacheStats, before |-> Before]
  /\ UNCHANGED <<_archiveStore, _archiveOrder, ARCHIVE_CACHE_MAX_SIZE, now, pc,
                 written, history, touched>>

Next ==
  \/ Tick
  \/ \E key \in Keys : Get(key)
  \/ \E key \in Keys, value \in Values : SetBegin(key, value)
  \/ SetEvict
  \/ SetInsert
  \/ \E key \in Keys : Delete(key)
  \/ \E key \in Keys : Has(key)
  \/ Stats

Spec == Init /\ [][Next]_vars

\* The same module with ARCHIVE_CACHE_MAX_SIZE also allowed to be 0.
InitAnyCapacity ==
  /\ _archiveStore = [k \in {} |-> Null]
  /\ _archiveOrder = <<>>
  /\ ARCHIVE_CACHE_MAX_SIZE \in 0..MaxCapacity
  /\ now = 0
  /\ pc = "idle"
  /\ call = [op |-> "init"]
  /\ written = [k \in {} |-> Null]
  /\ history = <<>>
  /\ touched = <<>>

SpecAnyCapacity == InitAnyCapacity /\ [][Next]_vars

\* ------------------------------------------------------- shared notions
\* No operation is in progress.
Idle == pc = "idle"

\* The set of keys held in the order array.
OrderKeys == { _archiveOrder[i] : i \in 1..Len(_archiveOrder) }

\* The call named op has completed and no later call has begun.
Done(op) == pc = "idle" /\ call.op = op

Last(arr) == arr[Len(arr)]

\* arr without every occurrence of key, the rest in order.
Without(arr, key) ==
  LET Other(x) == x # key
  IN  SelectSeq(arr, Other)

KeysOf(arr) == { arr[i] : i \in 1..Len(arr) }

\* ---------------------------------------------------------------- claims

\* C1: whenever no operation is in progress, the store holds as many
\* entries as the order array has elements, and at most
\* ARCHIVE_CACHE_MAX_SIZE of them; stats reports the same.
C1_SizeWithinCapacity ==
  /\ Idle =>
       /\ Cardinality(DOMAIN _archiveStore) = Len(_archiveOrder)
       /\ Len(_archiveOrder) <= ARCHIVE_CACHE_MAX_SIZE
  /\ Done("stats") =>
       /\ call.ret.size = Len(call.ret.keys)
       /\ call.ret.size <= call.ret.maxSize

\* A set of a new key has just evicted a key from a full cache and left it
\* full again.
C1_Witness ==
  /\ Done("set")
  /\ ~call.had
  /\ Len(call.evicted) = 1
  /\ Len(_archiveOrder) = ARCHIVE_CACHE_MAX_SIZE
  /\ Cardinality(DOMAIN _archiveStore) = ARCHIVE_CACHE_MAX_SIZE

\* C2: whenever no operation is in progress, the keys in the order array
\* are exactly the keys of the store; the keys stats returns are exactly
\* the keys has answers true for.
C2_OrderKeysAreStoreKeys ==
  /\ Idle => OrderKeys = DOMAIN _archiveStore
  /\ Done("stats") => KeysOf(call.ret.keys) = DOMAIN call.before.store
  /\ Done("has") => (call.ret <=> call.key \in OrderKeys)

\* A delete has just removed a key that was present, leaving another.
C2_Witness ==
  /\ Done("delete")
  /\ call.key \in DOMAIN call.before.store
  /\ call.key \notin DOMAIN _archiveStore
  /\ _archiveOrder # <<>>

\* C3: in every reachable state, also while setArchive runs, no key occurs
\* twice in the order array.
C3_NoDuplicateInOrder ==
  \A i, j \in 1..Len(_archiveOrder) :
    _archiveOrder[i] = _archiveOrder[j] => i = j

\* A set has just overwritten the key that was at the front of an order
\* array of two or more keys.
C3_Witness ==
  /\ Done("set")
  /\ call.had
  /\ Len(call.before.order) >= 2
  /\ Head(call.before.order) = call.key
  /\ Last(_archiveOrder) = call.key

\* C4: a set of a key the cache does not hold, called on a cache holding
\* exactly ARCHIVE_CACHE_MAX_SIZE entries, removes the front key of the
\* order array and no other key; after keys 1..capacity+1 have been set in
\* this order from construction with no reads, key 1 is gone, key
\* capacity+1 is held, and has answers accordingly.
C4_EvictsFrontOnly ==
  /\ ( /\ Done("set")
       /\ ~call.had
       /\ Cardinality(DOMAIN call.before.store) = ARCHIVE_CACHE_MAX_SIZE )
     => /\ call.evicted = << Head(call.before.order) >>
        /\ DOMAIN _archiveStore =
             ((DOMAIN call.before.store) \ {Head(call.before.order)})
               \cup {call.key}
        /\ _archiveOrder = Append(Tail(call.before.order), call.key)
  /\ ( /\ Idle
       /\ Shape(history) = FillScript(ARCHIVE_CACHE_MAX_SIZE) )
     => /\ 1 \notin DOMAIN _archiveStore
        /\ (ARCHIVE_CACHE_MAX_SIZE + 1) \in DOMAIN _archiveStore
        /\ (call.op = "has" /\ call.key = 1) => call.ret = FALSE
        /\ (call.op = "has" /\ call.key = ARCHIVE_CACHE_MAX_SIZE + 1)
             => call.ret = TRUE

\* Keys 1..capacity+1 have been set in order and has(1) was then asked.
C4_Witness ==
  /\ Shape(history) = FillScript(ARCHIVE_CACHE_MAX_SIZE)
  /\ Done("has")
  /\ call.key = 1
  /\ Len(_archiveOrder) = ARCHIVE_CACHE_MAX_SIZE

\* C5: a get that returns an entry leaves its key last in the order array,
\* the other keys in their former relative order and the store unchanged;
\* with capacity 2, after set 1, set 2, get 1 (returning an entry), set 3,
\* key 2 has been evicted and key 1 is kept.
C5_GetRefreshesRecency ==
  /\ ( Done("get") /\ call.ret # Null )
     => /\ Last(_archiveOrder) = call.key
        /\ Len(_archiveOrder) = Len(call.before.order)
        /\ Without(_archiveOrder, call.key) =
             Without(call.before.order, call.key)
        /\ _archiveStore = call.before.store
        /\ call.ret = call.before.store[call.key]
  /\ ( /\ Idle
       /\ ARCHIVE_CACHE_MAX_SIZE = 2
       /\ Shape(history) = RefreshScript
       /\ history[3].val # Null )
     => /\ DOMAIN _archiveStore = {1, 3}
        /\ _archiveOrder = <<1, 3>>

\* With capacity 2: set 1, set 2, get 1 returned an entry, set 3 completed.
C5_Witness ==
  /\ Idle
  /\ ARCHIVE_CACHE_MAX_SIZE = 2
  /\ Shape(history) = RefreshScript
  /\ history[3].val # Null

\* C6: a get of a key that is in the store with now - timestamp greater
\* than ARCHIVE_CACHE_TTL returns null and removes the key from the store
\* and from the order array; every other entry and the relative order of
\* the other keys stay as they were.
C6_ExpiredGetPurges ==
  ( /\ Done("get")
    /\ call.key \in DOMAIN call.before.store
    /\ call.before.now - call.before.store[call.key].timestamp
         > ARCHIVE_CACHE_TTL )
  => /\ call.ret = Null
     /\ call.key \notin DOMAIN _archiveStore
     /\ call.key \notin OrderKeys
     /\ DOMAIN _archiveStore = (DOMAIN call.before.store) \ {call.key}
     /\ \A k \in DOMAIN _archiveStore :
          _archiveStore[k] = call.before.store[k]
     /\ _archiveOrder = Without(call.before.order, call.key)

\* A get has just found its key expired, in a cache that held another key
\* behind it.
C6_Witness ==
  /\ Done("get")
  /\ call.key \in DOMAIN call.before.store
  /\ call.before.now - call.before.store[call.key].timestamp
       > ARCHIVE_CACHE_TTL
  /\ Len(call.before.order) >= 2
  /\ Head(call.before.order) = call.key
  /\ call.ret = Null

\* C7: has answers whether the key is in the store, whatever the entry's
\* age, and changes nothing; when has has answered true for a key older
\* than ARCHIVE_CACHE_TTL, a get of that key called next returns null.
C7_HasIgnoresTtl ==
  /\ [](Done("has") =>
          /\ call.ret = (call.key \in DOMAIN call.before.store)
          /\ _archiveStore = call.before.store
          /\ _archiveOrder = call.before.order)
  /\ [][( /\ Done("has")
          /\ call.ret = TRUE
          /\ now - _archiveStore[call.key].timestamp > ARCHIVE_CACHE_TTL
          /\ call'.op = "get"
          /\ call'.key = call.key )
        => call'.ret = Null]_vars

\* has has just answered true for a key whose age is over the TTL.
C7_Witness ==
  /\ Done("has")
  /\ call.ret = TRUE
  /\ call.key \in DOMAIN _archiveStore
  /\ call.before.now - _archiveStore[call.key].timestamp > ARCHIVE_CACHE_TTL

\* C8: a get of a key called no later than ARCHIVE_CACHE_TTL after the
\* most recent set of that key (the key not removed since) returns the
\* entry of that set; after set 1 at t0, set 1 at t1 > t0 and get 1 at t
\* with t - t1 <= ARCHIVE_CACHE_TTL, the get returns the second value with
\* timestamp t1, however large t - t0 is.
C8_OverwriteRestartsTtl ==
  /\ ( /\ Done("get")
       /\ call.key \in DOMAIN call.before.written
       /\ call.before.now - call.before.written[call.key].time
            <= ARCHIVE_CACHE_TTL )
     => /\ call.ret # Null
        /\ call.ret.timestamp = call.before.written[call.key].time
        /\ call.ret.buffer = call.before.written[call.key].value.buffer
  /\ ( /\ Idle
       /\ Shape(history) = OverwriteScript
       /\ history[2].at > history[1].at
       /\ history[3].at - history[2].at <= ARCHIVE_CACHE_TTL )
     => /\ history[3].val # Null
        /\ history[3].val.timestamp = history[2].at
        /\ history[3].val.buffer = history[2].val.buffer

\* set 1 at t0, set 1 with another value at t1 > t0, get 1 at t with
\* t - t1 <= TTL < t - t0.
C8_Witness ==
  /\ Idle
  /\ Shape(history) = OverwriteScript
  /\ history[2].at > history[1].at
  /\ history[2].val # history[1].val
  /\ history[3].at - history[2].at <= ARCHIVE_CACHE_TTL
  /\ history[3].at - history[1].at > ARCHIVE_CACHE_TTL

\* C9: when a set has returned, its key is in the store, is the last
\* element of the order array, and carries as timestamp the time the set
\* read from the clock, whether or not the key was there before.
C9_SetLeavesKeyNewest ==
  Done("set") =>
    /\ call.key \in DOMAIN _archiveStore
    /\ _archiveOrder # <<>>
    /\ Last(_archiveOrder) = call.key
    /\ _archiveStore[call.key].timestamp = call.at
    /\ call.at \in call.before.now..now

\* A set has just overwritten, at a later time, a key that was not last in
\* a full cache.
C9_Witness ==
  /\ Done("set")
  /\ call.had
  /\ call.at > call.before.store[call.key].timestamp
  /\ Last(call.before.order) # call.key
  /\ Len(_archiveOrder) = ARCHIVE_CACHE_MAX_SIZE

\* The caller's fields of an item: everything but the timestamp.
Payload(item) == [f \in (DOMAIN item) \ {"timestamp"} |-> item[f]]

\* C10: a get that returns an entry returns the fields of the value of the
\* most recent set of that key that has not been removed since; no call
\* changes the payload stored for a key other than a set of that key.
C10_GetReturnsLastSetPayload ==
  /\ ( Done("get") /\ call.ret # Null )
     => /\ call.key \in DOMAIN call.before.written
        /\ DOMAIN call.ret =
             (DOMAIN call.before.written[call.key].value) \cup {"timestamp"}
        /\ Payload(call.ret) = Payload(call.before.written[call.key].value)
  /\ call.op \in {"get", "set", "delete", "has", "stats"}
     => \A k \in (DOMAIN _archiveStore) \cap (DOMAIN call.before.store) :
          \/ call.op = "set" /\ call.key = k
          \/ Payload(_archiveStore[k]) = Payload(call.before.store[k])

\* A get has just returned, at a later time, the entry of a key that was
\* not last in the order array.
C10_Witness ==
  /\ Done("get")
  /\ call.ret # Null
  /\ call.before.now > call.ret.timestamp
  /\ Len(call.before.order) >= 2
  /\ Last(call.before.order) # call.key

\* C11: a delete leaves its key in neither the store nor the order array
\* and every other entry and the order of the other keys as they were; on
\* an absent key it changes nothing; a delete of the key just deleted
\* changes nothing.
C11_DeleteRemovesKeyOnly ==
  /\ [](Done("delete") =>
          /\ call.key \notin DOMAIN _archiveStore
          /\ call.key \notin OrderKeys
          /\ DOMAIN _archiveStore = (DOMAIN call.before.store) \ {call.key}
          /\ \A k \in DOMAIN _archiveStore :
               _archiveStore[k] = call.before.store[k]
          /\ _archiveOrder = Without(call.before.order, call.key)
          /\ call.key \notin DOMAIN call.before.store
               => /\ _archiveStore = call.before.store
                  /\ _archiveOrder = call.before.order
                  /\ Cardinality(DOMAIN _archiveStore) =
                       Cardinality(DOMAIN call.before.store))
  /\ [][( /\ Done("delete")
          /\ pc' = "idle"
          /\ call'.op = "delete"
          /\ call'.key = call.key )
        => /\ _archiveStore' = _archiveStore
           /\ _archiveOrder' = _archiveOrder]_vars

\* A delete of a key that the cache, holding other keys, did not hold.
C11_Witness ==
  /\ Done("delete")
  /\ call.key \notin DOMAIN call.before.store
  /\ call.before.order # <<>>
  /\ _archiveOrder = call.before.order

\* C12: with ARCHIVE_CACHE_MAX_SIZE = 0 the store never holds an entry and
\* every set call completes: whenever setArchive is in its eviction loop,
\* the loop can exit (the array is below capacity) or its next iteration
\* shortens the array.
C12_SetCompletesAtCapacityZero ==
  ARCHIVE_CACHE_MAX_SIZE = 0 =>
    /\ Cardinality(DOMAIN _archiveStore) = 0
    /\ pc = "evict" =>
         \/ Len(_archiveOrder) < ARCHIVE_CACHE_MAX_SIZE
         \/ _archiveOrder # <<>>

\* C13: has, stats and a get of a key that is not in the store leave the
\* store (entries and timestamps) and the order array as they were; stats
\* returns the number of entries, ARCHIVE_CACHE_MAX_SIZE and the order
\* array from oldest to newest.
C13_ReadsHaveNoEffect ==
  /\ ( \/ Done("has")
       \/ Done("stats")
       \/ Done("get") /\ call.key \notin DOMAIN call.before.store )
     => /\ _archiveStore = call.before.store
        /\ _archiveOrder = call.before.order
  /\ Done("stats")
     => /\ call.ret.size = Cardinality(DOMAIN call.before.store)
        /\ call.ret.maxSize = ARCHIVE_CACHE_MAX_SIZE
        /\ call.ret.keys = call.before.order
        /\ call.ret.keys = call.before.touched
  /\ ( Done("get") /\ call.key \notin DOMAIN call.before.store )
     => call.ret = Null

\* stats has just been called, after the clock has advanced, on a cache
\* holding two or more keys.
C13_Witness ==
  /\ Done("stats")
  /\ Len(call.ret.keys) >= 2
  /\ call.before.now > 0

\* C14: a set of a key the store already holds evicts nothing, also on a
\* full cache: the store has the same keys afterwards, every other entry
\* is as it was, the other keys keep their order, and the set's key has
\* the new payload, the new timestamp and the last place in the order.
C14_OverwriteEvictsNothing ==
  ( Done("set") /\ call.had )
  => /\ call.evicted = <<>>
     /\ DOMAIN _archiveStore = DOMAIN call.before.store
     /\ \A k \in (DOMAIN _archiveStore) \ {call.key} :
          _archiveStore[k] = call.before.store[k]
     /\ _archiveOrder = Append(Without(call.before.order, call.key), call.key)
     /\ Payload(_archiveStore[call.key]) = Payload(call.value)
     /\ _archiveStore[call.key].timestamp = call.at

\* A set has just given another payload to a key of a full cache of two
\* or more keys.
C14_Witness ==
  /\ Done("set")
  /\ call.had
  /\ Len(call.before.order) = ARCHIVE_CACHE_MAX_SIZE
  /\ ARCHIVE_CACHE_MAX_SIZE >= 2
  /\ Payload(call.before.store[call.key]) # Payload(call.value)

\* C15: a get changes no stored timestamp; every entry carries the time
\* of the set that wrote it; so a get of a key called more than
\* ARCHIVE_CACHE_TTL after the last set of that key returns null, whatever
\* gets returned the entry in between.
C15_TtlIsAbsolute ==
  /\ Done("get")
     => \A k \in DOMAIN _archiveStore :
          _archiveStore[k].timestamp = call.before.store[k].timestamp
  /\ \A k \in (DOMAIN _archiveStore) \cap (DOMAIN written) :
       _archiveStore[k].timestamp = written[k].time
  /\ ( /\ Done("get")
       /\ call.key \in DOMAIN call.before.written
       /\ call.before.now - call.before.written[call.key].time
            > ARCHIVE_CACHE_TTL )
     => call.ret = Null

\* A get has just found its key expired although that key had been read
\* since it was set: it stood in the order array behind a key that was set
\* later.
C15_Witness ==
  /\ Done("get")
  /\ call.ret = Null
  /\ call.key \in DOMAIN call.before.written
  /\ call.before.now - call.before.written[call.key].time > ARCHIVE_CACHE_TTL
  /\ Len(call.before.order) >= 2
  /\ Last(call.before.order) = call.key
  /\ call.before.written[Head(call.before.order)].time
       > call.before.written[call.key].time

\* C16: a get of a key whose age (now - timestamp) is exactly
\* ARCHIVE_CACHE_TTL returns the entry, keeps it in the store and moves the
\* key to the end of the order array; a get removes its key only when the
\* age is strictly greater than ARCHIVE_CACHE_TTL.
C16_ExpiryIsStrict ==
  /\ ( /\ Done("get")
       /\ call.key \in DOMAIN call.before.store
       /\ call.before.now - call.before.store[call.key].timestamp
            = ARCHIVE_CACHE_TTL )
     => /\ call.ret = call.before.store[call.key]
        /\ call.key \in DOMAIN _archiveStore
        /\ _archiveStore = call.before.store
        /\ Last(_archiveOrder) = call.key
  /\ ( /\ Done("get")
       /\ call.key \in DOMAIN call.before.store
       /\ call.key \notin DOMAIN _archiveStore )
     => call.before.now - call.before.store[call.key].timestamp
          > ARCHIVE_CACHE_TTL

\* A get has just returned an entry exactly ARCHIVE_CACHE_TTL old whose
\* key was at the front of an order array of two or more keys.
C16_Witness ==
  /\ Done("get")
  /\ call.key \in DOMAIN call.before.store
  /\ call.before.now - call.before.store[call.key].timestamp
       = ARCHIVE_CACHE_TTL
  /\ call.ret # Null
  /\ Len(call.before.order) >= 2
  /\ Head(call.before.order) = call.key

\* C17: a key leaves the store only in a delete of that key, in a get of
\* that key that finds it older than ARCHIVE_CACHE_TTL, or in an eviction
\* step of a set of another key while it is at the front of a full order
\* array; no other step (clock, set entry and insert, has, stats) removes
\* a key, and stats counts entries whatever their age.
C17_OnlyThreeWaysOut ==
  /\ [][\A k \in DOMAIN _archiveStore :
          k \notin DOMAIN _archiveStore'
          => \/ /\ pc = "idle" /\ pc' = "idle"
                /\ call'.op = "delete" /\ call'.key = k
                /\ call'.before.store = _archiveStore
             \/ /\ pc = "idle" /\ pc' = "idle"
                /\ call'.op = "get" /\ call'.key = k
                /\ call'.before.store = _archiveStore
                /\ call'.ret = Null
                /\ now - _archiveStore[k].timestamp > ARCHIVE_CACHE_TTL
             \/ /\ pc = "evict" /\ pc' = "evict"
                /\ call.op = "set" /\ call.key # k
                /\ call'.evicted = Append(call.evicted, k)
                /\ Head(_archiveOrder) = k
                /\ Len(_archiveOrder) = ARCHIVE_CACHE_MAX_SIZE]_vars
  /\ [](Done("stats") =>
          call.ret.size = Cardinality(DOMAIN call.before.store))

\* stats has just counted a full cache that holds an entry older than
\* ARCHIVE_CACHE_TTL.
C17_Witness ==
  /\ Done("stats")
  /\ call.ret.size = ARCHIVE_CACHE_MAX_SIZE
  /\ \E k \in DOMAIN _archiveStore :
       call.before.now - _archiveStore[k].timestamp > ARCHIVE_CACHE_TTL

\* C18: whenever no operation is in progress, the order array lists the
\* keys by their most recent set or entry-returning get, oldest first (has
\* and stats are no reads); the key a set evicts is the one that has gone
\* longest without such a set or get.
C18_OrderIsLastTouchOrder ==
  /\ Idle => _archiveOrder = touched
  /\ ( Done("set") /\ call.evicted # <<>> )
     => /\ call.before.touched # <<>>
        /\ call.evicted = << Head(call.before.touched) >>

\* A get has just moved to the end of the order array a key that was set
\* before the key now at the front.
C18_Witness ==
  /\ Done("get")
  /\ call.ret # Null
  /\ Len(_archiveOrder) >= 2
  /\ Last(_archiveOrder) = call.key
  /\ Head(call.before.order) = call.key
  /\ written[Last(_archiveOrder)].time < written[Head(_archiveOrder)].time

\* C19: every set call terminates (whenever setArchive is in its eviction
\* loop, the loop can exit or its next iteration shortens the array), and
\* with ARCHIVE_CACHE_MAX_SIZE >= 1 a call evicts at most one key: none
\* when the key was held or the cache was not full, exactly one when the
\* key is new and the cache was full.
C19_SetTerminatesEvictingAtMostOne ==
  /\ pc = "evict" =>
       \/ Len(_archiveOrder) < ARCHIVE_CACHE_MAX_SIZE
       \/ _archiveOrder # <<>>
  /\ ( ARCHIVE_CACHE_MAX_SIZE >= 1 /\ call.op = "set" )
     => /\ Len(call.evicted) <= 1
        /\ pc = "idle" =>
             ( Len(call.evicted) = 1
               <=> /\ ~call.had
                   /\ Cardinality(DOMAIN call.before.store)
                        = ARCHIVE_CACHE_MAX_SIZE )

\* C20: the timestamp of a stored entry is the clock reading of the set
\* that wrote it, also when the value passed to set has a timestamp field
\* of its own; a get of a held key returns null exactly when the time
\* since that set is greater than ARCHIVE_CACHE_TTL.
C20_TimestampIsSetTime ==
  /\ Done("set")
     => /\ _archiveStore[call.key].timestamp = call.at
        /\ call.at >= call.before.now
        /\ "timestamp" \in DOMAIN call.value
             => _archiveStore[call.key].timestamp # call.value.timestamp
  /\ ( Done("get") /\ call.key \in DOMAIN call.before.written )
     => /\ call.key \in DOMAIN call.before.store
        /\ call.before.store[call.key].timestamp
             = call.before.written[call.key].time
        /\ call.ret = Null
             <=> call.before.now - call.before.written[call.key].time
                   > ARCHIVE_CACHE_TTL

\* A get has just returned an entry that was set with a value carrying a
\* timestamp of its own, one by which the entry would already have expired.
C20_Witness ==
  /\ Done("get")
  /\ call.ret # Null
  /\ call.key \in DOMAIN call.before.written
  /\ "timestamp" \in DOMAIN call.before.written[call.key].value
  /\ call.before.now - call.before.written[call.key].value.timestamp
       > ARCHIVE_CACHE_TTL

TypeOK ==
  /\ DOMAIN _archiveStore \subseteq Keys
  /\ \A k \in DOMAIN _archiveStore :
       /\ DOMAIN _archiveStore[k] = {"buffer", "timestamp"}
       /\ _archiveStore[k].buffer \in Buffers
       /\ _archiveStore[k].timestamp \in 0..now
  /\ _archiveOrder \in Seq(Keys)
  /\ now \in 0..MaxTime
  /\ pc \in {"idle", "evict"}
  /\ ARCHIVE_CACHE_MAX_SIZE \in 1..MaxCapacity
====
